---- MODULE Spec2Model ----
(***************************************************************************)
(* State-machine model of the WebP -> JPEG / PDF converter (src/App.tsx,   *)
(* the image service and the PDF service).  One action per event handler   *)
(* or per macrotask of an asynchronous run: everything that runs between   *)
(* two suspension points (an await on the image codec) is one step.        *)
(***************************************************************************)
EXTENDS Integers, Sequences, FiniteSets, TLC

VARIABLES
  files,        \* useState<FileItem[]>: the item list
  mode,         \* useState<AppMode>
  isProcessing, \* useState<boolean>: the busy flag
  pdfBlob,      \* useState<Blob | null>: None or Some(document)
  pdfOptions,   \* useState<PdfOptions>
  nextId,       \* the next uuid / object URL the host hands out
  liveUrls,     \* object URLs created by URL.createObjectURL and not yet revoked
  jpegPending,  \* startJpegConversion: the pendingFiles snapshot of the run
  jpegState,    \* per pending item, the state of its async closure
  jpegI,        \* startJpegConversion: the loop variable i (start of the group)
  pdfFiles,     \* startPdfConversion: the files array captured by the closure
  pdfRunOptions,\* generatePdf: the options argument of the run
  pdfI,         \* generatePdf: the loop variable i
  pdfDoc,       \* generatePdf: the pages placed in the jsPDF document so far
  delivered     \* what the step just taken handed to the browser as a download
                \* (link.click()): None or Some(artifact)

vars == <<files, mode, isProcessing, pdfBlob, pdfOptions, nextId, liveUrls,
          jpegPending, jpegState, jpegI, pdfFiles, pdfRunOptions, pdfI, pdfDoc,
          delivered>>

jpegVars == <<jpegPending, jpegState, jpegI>>
pdfVars == <<pdfFiles, pdfRunOptions, pdfI, pdfDoc>>

(***************************************************************************)
(* Bounds of the model.                                                    *)
(***************************************************************************)
\* how many files the user adds over a session (ids 1..MaxIds)
MaxIds == 2
\* how many files one drop or one file-input selection carries
MaxDrop == 2
\* how many files are already listed when a batch session starts
MaxBatchFiles == 5
\* how many files are already listed when a document session starts
MaxPdfFiles == 3
\* the largest width and height, in pixels, of an image of unknown size, and
\* the largest side of a content box other than those of the A4 page
MaxSide == 12
\* the longest file name of a naming session, in characters
MaxNameLen == 5

(***************************************************************************)
(* Values.                                                                 *)
(***************************************************************************)
\* an optional field (convertedBlob?, error?, Blob | null): absent or present
None == <<>>
Some(x) == <<x>>

IDLE == "IDLE"
CONVERTING == "CONVERTING"
COMPLETED == "COMPLETED"
ERROR == "ERROR"
ConversionStatus == {IDLE, CONVERTING, COMPLETED, ERROR}

JPEG == "JPEG"
PDF == "PDF"
AppMode == {JPEG, PDF}

PdfMargin == {"none", "small", "big"}
PdfOrientation == {"portrait", "landscape"}

\* file names are sequences of characters (File.name)
PhotoWebp == <<"p", "h", "o", "t", "o", ".", "w", "e", "b", "p">>
AWebp == <<"a", ".", "w", "e", "b", "p">>
APng == <<"a", ".", "p", "n", "g">>
ScanFinalWebp == <<"s", "c", "a", "n", ".", "f", "i", "n", "a", "l", ".",
                   "w", "e", "b", "p">>
Notes == <<"n", "o", "t", "e", "s">>

\* the files on the user's disk, in the order the user adds them: the k-th
\* file ever added is named UserFiles[k] (cyclically)
UserFiles == <<PhotoWebp, AWebp, APng, ScanFinalWebp, Notes>>
FileNameOf(k) == UserFiles[((k - 1) % Len(UserFiles)) + 1]

\* the pixel dimensions of the images in those files (img.width, img.height)
UserImages ==
  <<[width |-> 4, height |-> 3], [width |-> 3, height |-> 4],
    [width |-> 1, height |-> 1], [width |-> 5, height |-> 1],
    [width |-> 210, height |-> 297]>>

\* the content of the k-th file ever added: its pixels and their dimensions
FileDataOf(k) ==
  [pixels |-> k,
   width |-> UserImages[((k - 1) % Len(UserImages)) + 1].width,
   height |-> UserImages[((k - 1) % Len(UserImages)) + 1].height]

\* the k-th File the user adds
UserFile(k) == [name |-> FileNameOf(k), data |-> FileDataOf(k)]

ConversionFailed == "Conversion failed"
PdfGenerationFailed == "PDF Generation failed"

\* const MARGIN_SIZES (mm)
MARGIN_SIZES == [none |-> 0, small |-> 10, big |-> 25]
\* const PAGE_SIZE.a4 (mm)
PAGE_SIZE == [width |-> 210, height |-> 297]
\* the position of the error text on a page: doc.text(..., 10, 10)
ErrorTextInset == 10

\* const BATCH_SIZE
BATCH_SIZE == 3

(***************************************************************************)
(* Sequence helpers.                                                       *)
(***************************************************************************)
\* Array.prototype.slice(from, to) with 0-based from (inclusive), to (exclusive)
Slice(s, from, to) ==
  LET hi == IF to < Len(s) THEN to ELSE Len(s)
  IN  IF from >= hi THEN <<>> ELSE SubSeq(s, from + 1, hi)

\* the ids of a list of items
IdSet(fs) == {fs[k].id : k \in 1..Len(fs)}

(***************************************************************************)
(* The item registry.                                                      *)
(***************************************************************************)
\* mutant of NewItem: the id of the first item is handed out again
NewItemReusedId(id, file) ==
  [id |-> 1,
   file |-> file,
   previewUrl |-> id,
   status |-> IDLE,
   convertedBlob |-> None,
   error |-> None]

\* the FileItem handleFilesAdded builds for one File (lines 276-281)
NewItem(id, file) ==
  [id |-> id,
   file |-> file,
   previewUrl |-> id,
   status |-> IDLE,
   convertedBlob |-> None,
   error |-> None]

\* { ...f, status, ...extra }: extra is a Partial<FileItem>, a record holding
\* some of the fields convertedBlob and error
MergeItem(f, status, extra) ==
  [f EXCEPT !.status = status,
            !.convertedBlob = IF "convertedBlob" \in DOMAIN extra
                              THEN extra.convertedBlob ELSE @,
            !.error = IF "error" \in DOMAIN extra THEN extra.error ELSE @]

\* mutant of UpdateStatus: the item is found by its position in the list at
\* the time it was added
UpdateStatusByPosition(fs, id, status, extra) ==
  [k \in 1..Len(fs) |->
     IF k = id THEN MergeItem(fs[k], status, extra) ELSE fs[k]]

\* updateStatus: prev.map(f => f.id === id ? {...f, status, ...extra} : f)
UpdateStatus(fs, id, status, extra) ==
  [k \in 1..Len(fs) |->
     IF fs[k].id = id THEN MergeItem(fs[k], status, extra) ELSE fs[k]]

\* the default value of updateStatus's parameter extra: {}
NoExtra == [x \in {} |-> None]

\* mutant of ResetAllConverting: the items keep their prior status
ResetNothing(fs) == fs

\* prev.map(f => ({...f, status: CONVERTING}))
ResetAllConverting(fs) ==
  [k \in 1..Len(fs) |-> MergeItem(fs[k], CONVERTING, NoExtra)]

\* mutant of MarkAllError: only the items still converting are marked
MarkConvertingError(fs) ==
  [k \in 1..Len(fs) |->
     IF fs[k].status = CONVERTING
     THEN MergeItem(fs[k], ERROR, [error |-> Some(PdfGenerationFailed)])
     ELSE fs[k]]

\* prev.map(f => ({...f, status: ERROR, error: 'PDF Generation failed'}))
MarkAllError(fs) ==
  [k \in 1..Len(fs) |->
     MergeItem(fs[k], ERROR, [error |-> Some(PdfGenerationFailed)])]

\* mutant of ResetAllIdle: the reset also drops the outputs and diagnostics
ResetAllIdleDroppingOutput(fs) ==
  [k \in 1..Len(fs) |->
     MergeItem(fs[k], IDLE, [convertedBlob |-> None, error |-> None])]

\* prev.map(f => ({...f, status: IDLE}))
ResetAllIdle(fs) ==
  [k \in 1..Len(fs) |-> MergeItem(fs[k], IDLE, NoExtra)]

\* mutant of RemoveById: the items that stay are reset to IDLE
RemoveByIdResettingRest(fs, id) ==
  ResetAllIdle(SelectSeq(fs, LAMBDA f : f.id # id))

\* prev.filter(f => f.id !== id)
RemoveById(fs, id) == SelectSeq(fs, LAMBDA f : f.id # id)

\* mutant of stats: completed counts the items that carry an output
statsByOutput ==
  [total |-> Len(files),
   completed |-> Len(SelectSeq(files, LAMBDA f : f.convertedBlob # None)),
   failed |-> Len(SelectSeq(files, LAMBDA f : f.status = ERROR))]

\* the derived statistics (useMemo over files)
stats ==
  [total |-> Len(files),
   completed |-> Len(SelectSeq(files, LAMBDA f : f.status = COMPLETED)),
   failed |-> Len(SelectSeq(files, LAMBDA f : f.status = ERROR))]

\* mutant of PendingFiles: everything that is not being converted is selected
PendingFilesNotConverting(fs) ==
  SelectSeq(fs, LAMBDA f : f.status # CONVERTING)

\* files.filter(f => f.status === IDLE || f.status === ERROR)
PendingFiles(fs) ==
  SelectSeq(fs, LAMBDA f : f.status = IDLE \/ f.status = ERROR)

(***************************************************************************)
(* Initial state: the useState initial values.                             *)
(***************************************************************************)
DefaultPdfOptions == [margin |-> "small", orientation |-> "portrait"]

Init ==
  /\ files = <<>>
  /\ mode = JPEG
  /\ isProcessing = FALSE
  /\ pdfBlob = None
  /\ pdfOptions = DefaultPdfOptions
  /\ nextId = 1
  /\ liveUrls = {}
  /\ jpegPending = <<>>
  /\ jpegState = <<>>
  /\ jpegI = 0
  /\ pdfFiles = <<>>
  /\ pdfRunOptions = DefaultPdfOptions
  /\ pdfI = 0
  /\ pdfDoc = <<>>
  /\ delivered = None

(***************************************************************************)
(* Registry handlers.                                                      *)
(***************************************************************************)
\* handleFilesAdded(newFiles) with the next n files of the user
HandleFilesAdded(n) ==
  LET newItems == [k \in 1..n |->
                     NewItem(nextId + k - 1, UserFile(nextId + k - 1))]
  IN  /\ n >= 1
      /\ nextId + n - 1 <= MaxIds
      /\ files' = files \o newItems
      /\ pdfBlob' = None
      /\ liveUrls' = liveUrls \cup {newItems[k].previewUrl : k \in 1..n}
      /\ nextId' = nextId + n
      /\ delivered' = None
      /\ UNCHANGED <<mode, isProcessing, pdfOptions, jpegVars, pdfVars>>

\* mutant of RevokedOnRemove: the URL of the removed item is never revoked
RevokedNothing(fs, id) == {}

\* the URLs handleRemoveFile revokes: that of the item found, if any
RevokedOnRemove(fs, id) ==
  {fs[k].previewUrl : k \in {j \in 1..Len(fs) : fs[j].id = id}}

\* handleRemoveFile(id), reached from the remove button of a FileCard, which is
\* rendered only while the item is not CONVERTING
HandleRemoveFile(id) ==
  /\ \E k \in 1..Len(files) : files[k].id = id /\ files[k].status # CONVERTING
  /\ liveUrls' = liveUrls \ RevokedOnRemove(files, id)
  /\ files' = RemoveById(files, id)
  /\ pdfBlob' = None
  /\ delivered' = None
  /\ UNCHANGED <<mode, isProcessing, pdfOptions, nextId, jpegVars, pdfVars>>

\* handleClearAll, behind the Clear all button (disabled={isProcessing}) of the
\* non-empty view, when the user confirms
HandleClearAll ==
  /\ Len(files) > 0
  /\ ~isProcessing
  /\ liveUrls' = liveUrls \ {files[k].previewUrl : k \in 1..Len(files)}
  /\ files' = <<>>
  /\ pdfBlob' = None
  /\ delivered' = None
  /\ UNCHANGED <<mode, isProcessing, pdfOptions, nextId, jpegVars, pdfVars>>

(***************************************************************************)
(* Mode switch and PDF options.                                            *)
(***************************************************************************)
\* the JPEG Mode button: setMode(JPEG); setPdfBlob(null)
SetModeJpeg ==
  /\ ~isProcessing
  /\ mode' = JPEG
  /\ pdfBlob' = None
  /\ delivered' = None
  /\ UNCHANGED <<files, isProcessing, pdfOptions, nextId, liveUrls, jpegVars, pdfVars>>

\* the PDF Mode button: setMode(PDF); every item back to IDLE
SetModePdf ==
  /\ ~isProcessing
  /\ mode' = PDF
  /\ files' = ResetAllIdle(files)
  /\ delivered' = None
  /\ UNCHANGED <<isProcessing, pdfBlob, pdfOptions, nextId, liveUrls, jpegVars, pdfVars>>

\* a Page Margins button (rendered in PDF mode with a non-empty list)
SetMargin(m) ==
  /\ mode = PDF
  /\ Len(files) > 0
  /\ pdfOptions' = [pdfOptions EXCEPT !.margin = m]
  /\ pdfBlob' = None
  /\ delivered' = None
  /\ UNCHANGED <<files, mode, isProcessing, nextId, liveUrls, jpegVars, pdfVars>>

\* an Orientation button (rendered in PDF mode with a non-empty list)
SetOrientation(o) ==
  /\ mode = PDF
  /\ Len(files) > 0
  /\ pdfOptions' = [pdfOptions EXCEPT !.orientation = o]
  /\ pdfBlob' = None
  /\ delivered' = None
  /\ UNCHANGED <<files, mode, isProcessing, nextId, liveUrls, jpegVars, pdfVars>>

(***************************************************************************)
(* Batch (JPEG) conversion: startConversion -> startJpegConversion.        *)
(***************************************************************************)
\* convertWebPToJpeg resolves with the JPEG encoding of the file's pixels
JpegOf(file) == [type |-> "image/jpeg", data |-> file.data]

\* the synchronous head of the async closures of one batch, in order:
\* updateStatus(item.id, CONVERTING) for each item of the batch
RECURSIVE MarkConverting(_, _)
MarkConverting(fs, batch) ==
  IF batch = <<>> THEN fs
  ELSE MarkConverting(UpdateStatus(fs, Head(batch).id, CONVERTING, NoExtra),
                      Tail(batch))

\* mutant of Batch: everything from i on is dispatched at once
BatchUnbounded(pending, i) == Slice(pending, i, Len(pending))

\* pendingFiles.slice(i, i + BATCH_SIZE)
Batch(pending, i) == Slice(pending, i, i + BATCH_SIZE)

\* the 1-based positions in pendingFiles of the batch that starts at i
BatchIndices(pending, i) ==
  {k \in 1..Len(pending) : i < k /\ k <= i + BATCH_SIZE}

\* the closure states once the batch starting at i has been dispatched
Dispatched(st, pending, i) ==
  [k \in 1..Len(st) |->
     IF k \in BatchIndices(pending, i) THEN "inflight" ELSE st[k]]

\* mutant of BatchDone: the loop goes on when the first closure returns
BatchDoneAny(st, pending, i) ==
  \E j \in BatchIndices(pending, i) : st[j] # "inflight"

\* mutant of BatchDone: the loop waits for every pending item, dispatched or not
BatchDoneWholeList(st, pending, i) ==
  \A j \in 1..Len(pending) : st[j] \in {"resolved", "rejected"}

\* await Promise.all(batch.map(...)): every closure of the batch at i returned
BatchDone(st, pending, i) ==
  \A j \in BatchIndices(pending, i) : st[j] # "inflight"

\* the batches the loop of startJpegConversion forms from pendingFiles, from
\* index i on: for (i; i < pendingFiles.length; i += BATCH_SIZE) slice(...)
RECURSIVE BatchesFrom(_, _)
BatchesFrom(pending, i) ==
  IF i < Len(pending)
  THEN <<Batch(pending, i)>> \o BatchesFrom(pending, i + BATCH_SIZE)
  ELSE <<>>

\* mutant of SettleItem: a failure marks every item in flight as failed
SettleItemAbortsBatch(fs, item, ok) ==
  IF ok
  THEN UpdateStatus(fs, item.id, COMPLETED,
                    [convertedBlob |-> Some(JpegOf(item.file))])
  ELSE [k \in 1..Len(fs) |->
          IF fs[k].status = CONVERTING
          THEN MergeItem(fs[k], ERROR, [error |-> Some(ConversionFailed)])
          ELSE fs[k]]

\* mutant of SettleItem: a failed conversion records nothing
SettleItemSwallowsFailure(fs, item, ok) ==
  IF ok
  THEN UpdateStatus(fs, item.id, COMPLETED,
                    [convertedBlob |-> Some(JpegOf(item.file))])
  ELSE fs

\* the continuation of one closure after await convertWebPToJpeg(item.file)
SettleItem(fs, item, ok) ==
  IF ok
  THEN UpdateStatus(fs, item.id, COMPLETED,
                    [convertedBlob |-> Some(JpegOf(item.file))])
  ELSE UpdateStatus(fs, item.id, ERROR, [error |-> Some(ConversionFailed)])

\* what a run reads of the items its closure captured: item.id and item.file
Captured(fs) == [k \in 1..Len(fs) |-> [id |-> fs[k].id, file |-> fs[k].file]]

\* mutant of CanStart: the button is not disabled while a run is in flight
CanStartWhileBusy ==
  /\ Len(files) > 0
  /\ (pdfBlob = None \/ mode = JPEG)
  /\ stats.completed < stats.total

\* whether the Convert / Generate button is rendered and enabled
CanStart ==
  /\ Len(files) > 0
  /\ (pdfBlob = None \/ mode = JPEG)
  /\ stats.completed < stats.total
  /\ ~isProcessing

\* startConversion in JPEG mode, up to the first await: the first batch is
\* dispatched; with nothing pending the busy flag is set and cleared again
StartJpegConversion ==
  LET pending == PendingFiles(files)
  IN  /\ CanStart
      /\ mode = JPEG
      /\ IF Len(pending) > 0
         THEN /\ isProcessing' = TRUE
              /\ jpegPending' = Captured(pending)
              /\ jpegI' = 0
              /\ jpegState' = Dispatched([k \in 1..Len(pending) |-> "queued"],
                                         pending, 0)
              /\ files' = MarkConverting(files, Batch(pending, 0))
         ELSE UNCHANGED <<isProcessing, jpegVars, files>>
      /\ delivered' = None
      /\ UNCHANGED <<mode, pdfBlob, pdfOptions, nextId, liveUrls, pdfVars>>

\* the conversion of pending item k settles (ok: resolved, otherwise rejected);
\* when it is the last of its batch, Promise.all resolves and the loop goes on
\* in the same task: the next batch is dispatched, or the run ends
JpegSettle(k, ok) ==
  LET fs1 == SettleItem(files, jpegPending[k], ok)
      st1 == [jpegState EXCEPT ![k] = IF ok THEN "resolved" ELSE "rejected"]
      batchDone == BatchDone(st1, jpegPending, jpegI)
      i2 == jpegI + BATCH_SIZE
  IN  /\ isProcessing
      /\ mode = JPEG
      /\ k \in 1..Len(jpegPending)
      /\ jpegState[k] = "inflight"
      /\ IF ~batchDone
         THEN /\ files' = fs1
              /\ jpegState' = st1
              /\ UNCHANGED <<isProcessing, jpegPending, jpegI>>
         ELSE IF i2 < Len(jpegPending)
         THEN /\ files' = MarkConverting(fs1, Batch(jpegPending, i2))
              /\ jpegState' = Dispatched(st1, jpegPending, i2)
              /\ jpegI' = i2
              /\ UNCHANGED <<isProcessing, jpegPending>>
         ELSE /\ files' = fs1
              /\ isProcessing' = FALSE
              /\ jpegPending' = <<>>
              /\ jpegState' = <<>>
              /\ jpegI' = 0
      /\ delivered' = None
      /\ UNCHANGED <<mode, pdfBlob, pdfOptions, nextId, liveUrls, pdfVars>>

(***************************************************************************)
(* Document (PDF) generation: startConversion -> startPdfConversion ->     *)
(* generatePdf.                                                            *)
(***************************************************************************)
\* mutant of PageGeometry: the margin is taken off one side only
PageGeometryOneSide(options) ==
  LET marginSize == MARGIN_SIZES[options.margin]
      pageWidth == IF options.orientation = "portrait"
                   THEN PAGE_SIZE.width ELSE PAGE_SIZE.height
      pageHeight == IF options.orientation = "portrait"
                    THEN PAGE_SIZE.height ELSE PAGE_SIZE.width
  IN  [marginSize |-> marginSize,
       pageWidth |-> pageWidth,
       pageHeight |-> pageHeight,
       contentWidth |-> pageWidth - marginSize,
       contentHeight |-> pageHeight - marginSize]

\* generatePdf, lines 691-698: the page and content box of the run
PageGeometry(options) ==
  LET marginSize == MARGIN_SIZES[options.margin]
      pageWidth == IF options.orientation = "portrait"
                   THEN PAGE_SIZE.width ELSE PAGE_SIZE.height
      pageHeight == IF options.orientation = "portrait"
                    THEN PAGE_SIZE.height ELSE PAGE_SIZE.width
  IN  [marginSize |-> marginSize,
       pageWidth |-> pageWidth,
       pageHeight |-> pageHeight,
       contentWidth |-> pageWidth - (marginSize * 2),
       contentHeight |-> pageHeight - (marginSize * 2)]

\* JavaScript numbers, taken as exact rationals num / den with den > 0
RECURSIVE GCD(_, _)
GCD(a, b) == IF b = 0 THEN a ELSE GCD(b, a % b)
Abs(n) == IF n < 0 THEN 0 - n ELSE n
Rat(n, d) ==
  LET g == GCD(Abs(n), Abs(d))
      sign == IF d < 0 THEN 0 - 1 ELSE 1
  IN  [num |-> (sign * n) \div g, den |-> (sign * d) \div g]
RatOf(n) == [num |-> n, den |-> 1]
RatAdd(a, b) == Rat((a.num * b.den) + (b.num * a.den), a.den * b.den)
RatSub(a, b) == Rat((a.num * b.den) - (b.num * a.den), a.den * b.den)
RatMul(a, b) == Rat(a.num * b.num, a.den * b.den)
RatDiv(a, b) == Rat(a.num * b.den, a.den * b.num)
RatGt(a, b) == a.num * b.den > b.num * a.den

\* mutant of FitInside: the image always takes the full content width
FitWidthOnly(width, height, contentWidth, contentHeight) ==
  [finalWidth |-> RatOf(contentWidth),
   finalHeight |-> RatDiv(RatOf(contentWidth), RatDiv(RatOf(width), RatOf(height)))]

\* generatePdf, lines 711-721: the size at which an image of width x height
\* pixels is placed inside the content box
FitInside(width, height, contentWidth, contentHeight) ==
  LET imgRatio == RatDiv(RatOf(width), RatOf(height))
      finalWidth == RatOf(contentWidth)
      finalHeight == RatDiv(RatOf(contentWidth), imgRatio)
  IN  IF RatGt(finalHeight, RatOf(contentHeight))
      THEN [finalWidth |-> RatMul(RatOf(contentHeight), imgRatio),
            finalHeight |-> RatOf(contentHeight)]
      ELSE [finalWidth |-> finalWidth, finalHeight |-> finalHeight]

\* an empty A4 page of the document: new jsPDF({orientation, format: 'a4'})
\* makes the first one, doc.addPage() each further one
NewPage(options) ==
  [kind |-> "blank", of |-> 0, text |-> "",
   x |-> RatOf(0), y |-> RatOf(0), width |-> RatOf(0), height |-> RatOf(0),
   pageWidth |-> IF options.orientation = "portrait"
                 THEN PAGE_SIZE.width ELSE PAGE_SIZE.height,
   pageHeight |-> IF options.orientation = "portrait"
                  THEN PAGE_SIZE.height ELSE PAGE_SIZE.width,
   inset |-> 0]

\* doc.addPage()
AddPage(doc, options) == Append(doc, NewPage(options))

\* mutant of Placement: the image is put at the top-left of the content box
PlacementTopLeft(width, height, marginSize, contentWidth, contentHeight) ==
  LET fit == FitInside(width, height, contentWidth, contentHeight)
  IN  [x |-> RatOf(marginSize), y |-> RatOf(marginSize),
       finalWidth |-> fit.finalWidth, finalHeight |-> fit.finalHeight]

\* generatePdf, lines 711-727: the arguments x, y, finalWidth, finalHeight of
\* doc.addImage for an image of width x height pixels
Placement(width, height, marginSize, contentWidth, contentHeight) ==
  LET fit == FitInside(width, height, contentWidth, contentHeight)
      x == RatAdd(RatOf(marginSize),
                  RatDiv(RatSub(RatOf(contentWidth), fit.finalWidth), RatOf(2)))
      y == RatAdd(RatOf(marginSize),
                  RatDiv(RatSub(RatOf(contentHeight), fit.finalHeight), RatOf(2)))
  IN  [x |-> x, y |-> y,
       finalWidth |-> fit.finalWidth, finalHeight |-> fit.finalHeight]

\* doc.addImage(dataUrl, 'JPEG', x, y, finalWidth, finalHeight) on page: the
\* image of file, fitted inside the content box and centred in it
ImagePage(page, file, g) ==
  LET at == Placement(file.data.width, file.data.height,
                      g.marginSize, g.contentWidth, g.contentHeight)
  IN  [page EXCEPT !.kind = "image", !.of = file.data, !.inset = g.marginSize,
                   !.x = at.x, !.y = at.y,
                   !.width = at.finalWidth, !.height = at.finalHeight]

\* doc.text(`Error loading image: ${name}`, 10, 10) on page: the error marker
ErrorPage(page, file) ==
  [page EXCEPT !.kind = "text", !.text = file.name, !.inset = ErrorTextInset]

\* mutant of PlacePage: a page whose image fails to load is left empty
PlacePageSkipsFailure(doc, file, options, decoded) ==
  IF decoded
  THEN [doc EXCEPT ![Len(doc)] = ImagePage(@, file, PageGeometry(options))]
  ELSE doc

\* mutant of PlacePage: the geometry follows the options selected right now
PlacePageCurrentOptions(doc, file, options, decoded) ==
  [doc EXCEPT ![Len(doc)] =
     IF decoded THEN ImagePage(@, file, PageGeometry(pdfOptions))
     ELSE ErrorPage(@, file)]

\* the body of the loop for page i after getImageData settled, on the last
\* page of the document: decoded tells whether the try block placed the image
\* or the catch block the marker
PlacePage(doc, file, options, decoded) ==
  [doc EXCEPT ![Len(doc)] =
     IF decoded THEN ImagePage(@, file, PageGeometry(options))
     ELSE ErrorPage(@, file)]

\* mutant of OnProgress: the item is looked up in the current list
OnProgressByPosition(fs, captured, index) ==
  IF index + 1 <= Len(fs)
  THEN UpdateStatus(fs, fs[index + 1].id, COMPLETED, NoExtra)
  ELSE fs

\* onProgress(index): updateStatus(files[index].id, COMPLETED), on the files
\* array the closure captured
OnProgress(fs, captured, index) ==
  UpdateStatus(fs, captured[index + 1].id, COMPLETED, NoExtra)

\* doc.output('blob')
DocBlob(doc, options) == [orientation |-> options.orientation, pages |-> doc]

\* startConversion in PDF mode, up to the first await of generatePdf: every
\* item is reset to CONVERTING, progress is signalled for page 0 and its
\* rasterization starts; fault: the container throws (new jsPDF)
StartPdfConversion(fault) ==
  /\ CanStart
  /\ mode = PDF
  /\ IF fault
     THEN /\ files' = MarkAllError(ResetAllConverting(files))
          /\ UNCHANGED <<isProcessing, pdfVars>>
     ELSE /\ files' = OnProgress(ResetAllConverting(files), Captured(files), 0)
          /\ isProcessing' = TRUE
          /\ pdfFiles' = Captured(files)
          /\ pdfRunOptions' = pdfOptions
          /\ pdfI' = 0
          /\ pdfDoc' = <<NewPage(pdfOptions)>>
  /\ delivered' = None
  /\ UNCHANGED <<mode, pdfBlob, pdfOptions, nextId, liveUrls, jpegVars>>

\* getImageData of page pdfI settles and generatePdf runs to its next await:
\* the page gets its image or its marker, then either progress is signalled
\* for the next page and that page added, or the document is output, the
\* artifact stored and the busy flag cleared; fault: a container call outside
\* the try block (doc.text, doc.addPage, doc.output) throws
PdfPageSettle(decoded, fault) ==
  LET doc1 == PlacePage(pdfDoc, pdfFiles[pdfI + 1].file, pdfRunOptions, decoded)
  IN  /\ isProcessing
      /\ mode = PDF
      /\ IF fault
         THEN /\ files' = MarkAllError(files)
              /\ isProcessing' = FALSE
              /\ pdfFiles' = <<>>
              /\ pdfRunOptions' = DefaultPdfOptions
              /\ pdfI' = 0
              /\ pdfDoc' = <<>>
              /\ UNCHANGED pdfBlob
         ELSE IF pdfI + 1 < Len(pdfFiles)
         THEN /\ files' = OnProgress(files, pdfFiles, pdfI + 1)
              /\ pdfI' = pdfI + 1
              /\ pdfDoc' = AddPage(doc1, pdfRunOptions)
              /\ UNCHANGED <<isProcessing, pdfFiles, pdfRunOptions, pdfBlob>>
         ELSE /\ pdfBlob' = Some(DocBlob(doc1, pdfRunOptions))
              /\ isProcessing' = FALSE
              /\ pdfFiles' = <<>>
              /\ pdfRunOptions' = DefaultPdfOptions
              /\ pdfI' = 0
              /\ pdfDoc' = <<>>
              /\ UNCHANGED files
      /\ delivered' = None
      /\ UNCHANGED <<mode, pdfOptions, nextId, liveUrls, jpegVars>>

(***************************************************************************)
(* Download: handleDownload -> zipAndDownload, or the stored document.     *)
(***************************************************************************)
JpgSuffix == <<".", "j", "p", "g">>

\* where in name the pattern /\.[^/.]+$/ matches: a dot followed, up to the
\* end of the name, by one or more characters other than '/' and '.'
ExtensionMatches(name) ==
  {s \in 1..Len(name) :
     /\ name[s] = "."
     /\ s < Len(name)
     /\ \A j \in (s + 1)..Len(name) : name[j] \notin {"/", "."}}

\* name.replace(/\.[^/.]+$/, ""): the leftmost match, if any, is cut out
StripExtension(name) ==
  IF ExtensionMatches(name) = {} THEN name
  ELSE LET s == CHOOSE m \in ExtensionMatches(name) :
                  \A t \in ExtensionMatches(name) : m <= t
       IN  SubSeq(name, 1, s - 1)

\* mutant of ArchiveEntryName: the suffix is appended to the whole name
AppendJpg(name) == name \o JpgSuffix

\* const fileName = file.name.replace(/\.[^/.]+$/, "") + ".jpg"
ArchiveEntryName(name) == StripExtension(name) \o JpgSuffix

\* mutant of ZipFile: an entry that already has this name keeps its content
ZipFileKeepsFirst(zip, fileName, blob) ==
  IF \E k \in 1..Len(zip) : zip[k].name = fileName
  THEN zip
  ELSE Append(zip, [name |-> fileName, blob |-> blob])

\* zip.file(fileName, blob): a new entry, or new content for the entry that
\* already has this name
ZipFile(zip, fileName, blob) ==
  IF \E k \in 1..Len(zip) : zip[k].name = fileName
  THEN [k \in 1..Len(zip) |->
          IF zip[k].name = fileName THEN [zip[k] EXCEPT !.blob = blob]
          ELSE zip[k]]
  ELSE Append(zip, [name |-> fileName, blob |-> blob])

\* files.forEach(file => zip.file(fileName, file.blob)) from the i-th on
RECURSIVE ZipAll(_, _)
ZipAll(zip, input) ==
  IF input = <<>> THEN zip
  ELSE ZipAll(ZipFile(zip, ArchiveEntryName(Head(input).name), Head(input).blob),
              Tail(input))

\* zipAndDownload(files): the archive that link.click() hands over, with the
\* argument it was built from
ZipAndDownload(input) ==
  [kind |-> "zip", files |-> input, entries |-> ZipAll(<<>>, input)]

\* mutant of CompletedFiles: every item with the COMPLETED status is packaged
CompletedByStatus(fs) == SelectSeq(fs, LAMBDA f : f.status = COMPLETED)

\* files.filter(f => f.status === COMPLETED && f.convertedBlob)
CompletedFiles(fs) ==
  SelectSeq(fs, LAMBDA f : f.status = COMPLETED /\ f.convertedBlob # None)

\* completedFiles.map(f => ({ name: f.file.name, blob: f.convertedBlob! }))
ZipInput(completed) ==
  [k \in 1..Len(completed) |->
     [name |-> completed[k].file.name,
      blob |-> IF completed[k].convertedBlob = None THEN None
               ELSE completed[k].convertedBlob[1]]]

\* handleDownload, behind the Download button: rendered with a non-empty list
\* when, in JPEG mode, some item is COMPLETED or, in PDF mode, a document is
\* stored; the button is not disabled while a run is in flight
HandleDownload ==
  /\ Len(files) > 0
  /\ IF mode = JPEG
     THEN /\ stats.completed > 0
          /\ delivered' = IF Len(CompletedFiles(files)) = 0 THEN None
                          ELSE Some(ZipAndDownload(ZipInput(CompletedFiles(files))))
     ELSE /\ pdfBlob # None
          /\ delivered' = Some([kind |-> "pdf", blob |-> pdfBlob[1]])
  /\ UNCHANGED <<files, mode, isProcessing, pdfBlob, pdfOptions, nextId,
                 liveUrls, jpegVars, pdfVars>>

(***************************************************************************)
(* The application.                                                        *)
(***************************************************************************)
Next ==
  \/ HandleDownload
  \/ \E n \in 1..MaxDrop : HandleFilesAdded(n)
  \/ \E id \in IdSet(files) : HandleRemoveFile(id)
  \/ HandleClearAll
  \/ SetModeJpeg
  \/ SetModePdf
  \/ \E m \in PdfMargin : SetMargin(m)
  \/ \E o \in PdfOrientation : SetOrientation(o)
  \/ StartJpegConversion
  \/ \E k \in 1..Len(jpegPending), ok \in BOOLEAN : JpegSettle(k, ok)
  \/ \E fault \in BOOLEAN : StartPdfConversion(fault)
  \/ \E decoded \in BOOLEAN, fault \in BOOLEAN : PdfPageSettle(decoded, fault)

Spec == Init /\ [][Next]_vars

(***************************************************************************)
(* Sessions that start from a list the user has already filled.            *)
(***************************************************************************)
\* the list after the user's first n files were added
Added(n) == [k \in 1..n |-> NewItem(k, UserFile(k))]

\* a batch session: n files added in JPEG mode (Init, then handleFilesAdded)
InitBatch ==
  \E n \in 1..MaxBatchFiles :
    /\ files = Added(n)
    /\ nextId = n + 1
    /\ liveUrls = 1..n
    /\ mode = JPEG
    /\ isProcessing = FALSE
    /\ pdfBlob = None
    /\ pdfOptions = DefaultPdfOptions
    /\ jpegPending = <<>>
    /\ jpegState = <<>>
    /\ jpegI = 0
    /\ pdfFiles = <<>>
    /\ pdfRunOptions = DefaultPdfOptions
    /\ pdfI = 0
    /\ pdfDoc = <<>>
    /\ delivered = None

\* some conversion in flight settles
JpegSettles == \E k \in 1..Len(jpegPending), ok \in BOOLEAN : JpegSettle(k, ok)

NextBatch ==
  \/ \E n \in 1..MaxDrop : HandleFilesAdded(n)
  \/ \E id \in IdSet(files) : HandleRemoveFile(id)
  \/ StartJpegConversion
  \/ JpegSettles

SpecBatch == InitBatch /\ [][NextBatch]_vars

\* every conversion in flight eventually resolves or rejects
FairSpecBatch == SpecBatch /\ WF_vars(JpegSettles)

\* a batch session in which the user also downloads the archive
NextArchive ==
  \/ NextBatch
  \/ HandleDownload

SpecArchive == InitBatch /\ [][NextArchive]_vars

\* a document session: n files added, then the PDF Mode button
InitPdf ==
  \E n \in 1..MaxPdfFiles :
    /\ files = Added(n)
    /\ nextId = n + 1
    /\ liveUrls = 1..n
    /\ mode = PDF
    /\ isProcessing = FALSE
    /\ pdfBlob = None
    /\ pdfOptions = DefaultPdfOptions
    /\ jpegPending = <<>>
    /\ jpegState = <<>>
    /\ jpegI = 0
    /\ pdfFiles = <<>>
    /\ pdfRunOptions = DefaultPdfOptions
    /\ pdfI = 0
    /\ pdfDoc = <<>>
    /\ delivered = None

NextPdf ==
  \/ \E n \in 1..MaxDrop : HandleFilesAdded(n)
  \/ \E id \in IdSet(files) : HandleRemoveFile(id)
  \/ \E m \in PdfMargin : SetMargin(m)
  \/ \E o \in PdfOrientation : SetOrientation(o)
  \/ \E fault \in BOOLEAN : StartPdfConversion(fault)
  \/ \E decoded \in BOOLEAN, fault \in BOOLEAN : PdfPageSettle(decoded, fault)

SpecPdf == InitPdf /\ [][NextPdf]_vars

\* a document session over one image of any size up to MaxSide x MaxSide
InitFit ==
  \E w \in 1..MaxSide, h \in 1..MaxSide :
    /\ files = <<NewItem(1, [name |-> FileNameOf(1),
                             data |-> [pixels |-> 1, width |-> w, height |-> h]])>>
    /\ nextId = 2
    /\ liveUrls = {1}
    /\ mode = PDF
    /\ isProcessing = FALSE
    /\ pdfBlob = None
    /\ pdfOptions = DefaultPdfOptions
    /\ jpegPending = <<>>
    /\ jpegState = <<>>
    /\ jpegI = 0
    /\ pdfFiles = <<>>
    /\ pdfRunOptions = DefaultPdfOptions
    /\ pdfI = 0
    /\ pdfDoc = <<>>
    /\ delivered = None

NextFit ==
  \/ \E m \in PdfMargin : SetMargin(m)
  \/ \E o \in PdfOrientation : SetOrientation(o)
  \/ \E fault \in BOOLEAN : StartPdfConversion(fault)
  \/ \E decoded \in BOOLEAN, fault \in BOOLEAN : PdfPageSettle(decoded, fault)

SpecFit == InitFit /\ [][NextFit]_vars

\* the characters of the file names of a naming session (File.name holds no
\* path separator)
NameChars == {"a", "b", "."}

\* every file name of up to MaxNameLen of these characters
Names == UNION {[1..n -> NameChars] : n \in 1..MaxNameLen}

\* a naming session: one file of any such name added in JPEG mode
InitNaming ==
  \E name \in Names :
    /\ files = <<NewItem(1, [name |-> name, data |-> FileDataOf(1)])>>
    /\ nextId = 2
    /\ liveUrls = {1}
    /\ mode = JPEG
    /\ isProcessing = FALSE
    /\ pdfBlob = None
    /\ pdfOptions = DefaultPdfOptions
    /\ jpegPending = <<>>
    /\ jpegState = <<>>
    /\ jpegI = 0
    /\ pdfFiles = <<>>
    /\ pdfRunOptions = DefaultPdfOptions
    /\ pdfI = 0
    /\ pdfDoc = <<>>
    /\ delivered = None

NextNaming ==
  \/ StartJpegConversion
  \/ JpegSettles
  \/ HandleDownload

SpecNaming == InitNaming /\ [][NextNaming]_vars

(***************************************************************************)
(* Properties.                                                             *)
(***************************************************************************)
\* the item of the current list with the given id (the id is in the list)
ItemOf(fs, id) == fs[CHOOSE k \in 1..Len(fs) : fs[k].id = id]

\* C1: every item satisfies the presence invariant: an Idle or Converting item
\* carries neither an output nor an error, an output is present only on a
\* Completed item and an error only on an Error item.
PresenceInvariant ==
  \A k \in 1..Len(files) :
    LET f == files[k]
    IN  /\ f.status \in {IDLE, CONVERTING}
             => f.convertedBlob = None /\ f.error = None
        /\ f.convertedBlob # None => f.status = COMPLETED
        /\ f.error # None => f.status = ERROR

\* the group (0-based) of the 1-based position k of a pending item
GroupOf(k) == (k - 1) \div 3

\* the sizes of a sequence of batches
Sizes(bs) == [g \in 1..Len(bs) |-> Len(bs[g])]

\* C2: a batch run partitions the selected items, in order, into consecutive
\* groups of at most 3 (7 pending items give 3, 3, 1) and processes the groups
\* strictly sequentially: no item of a later group is dispatched before every
\* item of the earlier groups has settled as Completed or Error.
GroupsSequential ==
  /\ Sizes(BatchesFrom(Captured(Added(7)), 0)) = <<3, 3, 1>>
  /\ BatchesFrom(Captured(Added(7)), 0)[3][1].id = 7
  /\ (isProcessing /\ mode = JPEG) =>
       /\ Len(jpegState) = Len(jpegPending)
       /\ \A k \in 1..Len(jpegPending) :
            LET id == jpegPending[k].id
            IN  /\ jpegState[k] = "queued" /\ id \in IdSet(files)
                     => ItemOf(files, id).status \in {IDLE, ERROR}
                /\ jpegState[k] = "inflight" /\ id \in IdSet(files)
                     => ItemOf(files, id).status = CONVERTING
       /\ \A a \in 1..Len(jpegPending), b \in 1..Len(jpegPending) :
            (GroupOf(a) < GroupOf(b) /\ jpegState[b] # "queued")
              => /\ jpegState[a] \in {"resolved", "rejected"}
                 /\ jpegPending[a].id \in IdSet(files)
                      => ItemOf(files, jpegPending[a].id).status
                           \in {COMPLETED, ERROR}
       /\ \A a \in 1..Len(jpegPending), b \in 1..Len(jpegPending) :
            (jpegState[a] = "inflight" /\ jpegState[b] = "inflight")
              => GroupOf(a) = GroupOf(b)

\* C2 witness: the second group is in flight after the first has settled
GroupsSequentialWitness ==
  /\ isProcessing /\ mode = JPEG
  /\ Len(jpegPending) = 5
  /\ jpegI = 3
  /\ jpegState[4] = "inflight" /\ jpegState[5] = "resolved"
  /\ jpegState[1] = "rejected" /\ jpegState[2] = "resolved"

\* C6: the derived statistics agree with the item list in every state.
StatsAgree ==
  LET count(S) == Cardinality({k \in 1..Len(files) : files[k].status \in S})
  IN  /\ stats.total = Len(files)
      /\ stats.completed = count({COMPLETED})
      /\ stats.failed = count({ERROR})
      /\ stats.completed + count({IDLE, CONVERTING, ERROR}) = stats.total

\* C6 witness: a state in the middle of a run with a completed item, a
\* converting item and a non-empty list
StatsAgreeWitness ==
  /\ isProcessing
  /\ stats.completed = 1
  /\ stats.total = 2
  /\ \E k \in 1..Len(files) : files[k].status = CONVERTING

\* during a batch run the status of every settled item still listed tells
\* its own outcome
StatusTellsOutcome ==
  (isProcessing /\ mode = JPEG) =>
    \A k \in 1..Len(jpegPending) :
      jpegPending[k].id \in IdSet(files) =>
        LET f == ItemOf(files, jpegPending[k].id)
        IN  /\ jpegState[k] = "resolved"
                 => f.status = COMPLETED /\ f.convertedBlob # None
            /\ jpegState[k] = "rejected"
                 => f.status = ERROR /\ f.error = Some("Conversion failed")

\* what the step that settles pending item k with outcome ok changes
IsolatedSettle(k, ok) ==
  /\ Len(files') = Len(files)
  /\ \A j \in 1..Len(files) :
       /\ files'[j].id = files[j].id
       /\ IF files[j].id = jpegPending[k].id
          THEN /\ files'[j].status = (IF ok THEN COMPLETED ELSE ERROR)
               /\ ok => files'[j].convertedBlob # None
               /\ ~ok => files'[j].error = Some("Conversion failed")
          ELSE \/ files'[j] = files[j]
               \/ /\ files[j].status \in {IDLE, ERROR}
                  /\ \E q \in 1..Len(jpegPending) :
                       /\ jpegPending[q].id = files[j].id
                       /\ jpegState[q] = "queued"
                       /\ GroupOf(q) = GroupOf(k) + 1
                  /\ files'[j] = [files[j] EXCEPT !.status = CONVERTING]
  /\ (\E j \in 1..Len(jpegPending) :
         j # k /\ jpegState[j] \in {"inflight", "queued"})
       => /\ isProcessing'
          /\ Len(jpegState') = Len(jpegState)
          /\ \A j \in 1..Len(jpegPending) :
               /\ (j # k /\ jpegState[j] = "inflight")
                    => jpegState'[j] = "inflight"
               /\ jpegState[j] = "queued"
                    => jpegState'[j] \in {"queued", "inflight"}
               /\ jpegState[j] \in {"resolved", "rejected"}
                    => jpegState'[j] = jpegState[j]

\* C3: failure isolation: a failing conversion makes exactly its own item
\* Error with the diagnostic; every other item keeps its status (or is
\* dispatched with the next group), the run goes on, and every settled item
\* still listed shows its own outcome.
FailureIsolation ==
  [][/\ StatusTellsOutcome
     /\ StatusTellsOutcome'
     /\ \A k \in 1..Len(jpegPending), ok \in BOOLEAN :
          JpegSettle(k, ok) => IsolatedSettle(k, ok)]_vars

\* C3 witness: in the first group one conversion failed and a sibling
\* succeeded, and the second group has been dispatched
FailureIsolationWitness ==
  /\ isProcessing /\ mode = JPEG
  /\ Len(jpegPending) >= 4
  /\ jpegI = 3
  /\ jpegState[1] = "rejected" /\ jpegState[2] = "resolved"
  /\ jpegState[4] = "inflight"
  /\ jpegPending[1].id \in IdSet(files)
  /\ ItemOf(files, jpegPending[1].id).status = ERROR
  /\ jpegPending[2].id \in IdSet(files)
  /\ ItemOf(files, jpegPending[2].id).status = COMPLETED

\* the status changes a batch run may make
BatchTransitions ==
  {<<IDLE, CONVERTING>>, <<ERROR, CONVERTING>>,
   <<CONVERTING, COMPLETED>>, <<CONVERTING, ERROR>>}

\* the 1-based position of id in the list
PositionOf(fs, id) == CHOOSE k \in 1..Len(fs) : fs[k].id = id

\* C4: a batch run selects exactly the Idle and Error items, in list order,
\* and only ever moves an item Idle -> Converting, Error -> Converting,
\* Converting -> Completed or Converting -> Error; a Completed item is never
\* selected and never changed.
BatchSelectsPending ==
  [][(mode = JPEG /\ (isProcessing \/ isProcessing')) =>
       /\ \A a \in 1..Len(files), b \in 1..Len(files') :
            files[a].id = files'[b].id =>
              \/ files'[b].status = files[a].status
              \/ <<files[a].status, files'[b].status>> \in BatchTransitions
       /\ (~isProcessing /\ isProcessing') =>
            /\ \A a \in 1..Len(files) :
                 (files[a].id \in IdSet(jpegPending'))
                   <=> (files[a].status \in {IDLE, ERROR})
            /\ \A p \in 1..Len(jpegPending') :
                 jpegPending'[p].id \in IdSet(files)
            /\ \A p \in 1..Len(jpegPending'), q \in 1..Len(jpegPending') :
                 p < q => PositionOf(files, jpegPending'[p].id)
                            < PositionOf(files, jpegPending'[q].id)]_vars

\* C4 witness: a run retries a failed item (its old diagnostic still shows)
\* beside a Completed item that was not selected
BatchSelectsPendingWitness ==
  /\ isProcessing /\ mode = JPEG
  /\ \E a \in 1..Len(files), b \in 1..Len(files) :
       /\ files[a].status = CONVERTING
       /\ files[a].error = Some("Conversion failed")
       /\ files[b].status = COMPLETED
       /\ files[b].id \notin IdSet(jpegPending)

\* C5: every batch run terminates: the busy flag is eventually cleared, and
\* when it is, every selected item still listed is Completed or Error.
BatchTerminates ==
  /\ (isProcessing /\ mode = JPEG) ~> ~isProcessing
  /\ [][(mode = JPEG /\ isProcessing /\ ~isProcessing') =>
          \A k \in 1..Len(jpegPending), j \in 1..Len(files') :
            files'[j].id = jpegPending[k].id
              => files'[j].status \in {COMPLETED, ERROR}]_vars

\* C5 witness: a run over five items has finished with failures and successes
BatchTerminatesWitness ==
  /\ ~isProcessing /\ mode = JPEG
  /\ Len(files) = 5
  /\ \A k \in 1..Len(files) : files[k].status \in {COMPLETED, ERROR}
  /\ Cardinality({k \in 1..Len(files) : files[k].status = ERROR}) >= 2
  /\ Cardinality({k \in 1..Len(files) : files[k].status = COMPLETED}) >= 2

\* page pg holds the image of the captured item it (decoded) or the error
\* marker that names it
PageHolds(pg, it, decoded) ==
  IF decoded THEN pg.kind = "image" /\ pg.of = it.file.data
  ELSE pg.kind = "text" /\ pg.text = it.file.name

\* C7: a document run covers every item of the current list whatever its
\* prior status, first resetting every item to Converting, and processes the
\* items one at a time in list order: page i+1 is started only after page i
\* has settled.
PagesOneAtATime ==
  [][/\ (mode = PDF /\ ~isProcessing /\ isProcessing') =>
          /\ Len(pdfFiles') = Len(files)
          /\ \A k \in 1..Len(files) :
               /\ pdfFiles'[k].id = files[k].id
               /\ pdfFiles'[k].file = files[k].file
          /\ pdfI' = 0
          /\ Len(pdfDoc') = 1
          /\ pdfDoc'[1].kind = "blank"
          /\ Len(files') = Len(files)
          /\ \A k \in 1..Len(files) :
               /\ files'[k].id = files[k].id
               /\ files'[k].status = (IF k = 1 THEN COMPLETED ELSE CONVERTING)
     /\ (mode = PDF /\ isProcessing) =>
          /\ pdfI < Len(pdfFiles)
          /\ Len(pdfDoc) = pdfI + 1
          /\ pdfDoc[pdfI + 1].kind = "blank"
          /\ \A j \in 1..pdfI :
               \E decoded \in BOOLEAN : PageHolds(pdfDoc[j], pdfFiles[j], decoded)
     /\ (mode = PDF /\ isProcessing /\ isProcessing') =>
          /\ pdfFiles' = pdfFiles
          /\ pdfI' = pdfI \/ pdfI' = pdfI + 1
          /\ pdfI' = pdfI + 1 =>
               /\ Len(pdfDoc') = pdfI + 2
               /\ pdfDoc'[pdfI + 1].kind # "blank"
               /\ SubSeq(pdfDoc', 1, pdfI) = SubSeq(pdfDoc, 1, pdfI)]_vars

\* C7 witness: a run over three items, the third of which failed in an
\* earlier run, has settled page 0 and is working on page 1
PagesOneAtATimeWitness ==
  /\ isProcessing /\ mode = PDF
  /\ Len(pdfFiles) = 3 /\ Len(files) = 3
  /\ pdfI = 1 /\ Len(pdfDoc) = 2
  /\ files[2].status = COMPLETED
  /\ files[3].status = CONVERTING
  /\ files[3].error = Some("PDF Generation failed")

\* C8: a decode failure does not abort a document run: the failing page gets
\* the marker naming its item, the following items are still processed, and
\* the run returns a document of exactly n pages, page i holding item i's
\* image or the marker naming item i.
DecodeFailureKeepsGoing ==
  [][/\ (mode = PDF /\ isProcessing) =>
          \A j \in 1..pdfI :
            \E decoded \in BOOLEAN : PageHolds(pdfDoc[j], pdfFiles[j], decoded)
     /\ \A decoded \in BOOLEAN :
          PdfPageSettle(decoded, FALSE) =>
            IF pdfI + 1 < Len(pdfFiles)
            THEN /\ isProcessing'
                 /\ pdfI' = pdfI + 1
                 /\ Len(pdfDoc') = pdfI + 2
                 /\ SubSeq(pdfDoc', 1, pdfI) = SubSeq(pdfDoc, 1, pdfI)
                 /\ PageHolds(pdfDoc'[pdfI + 1], pdfFiles[pdfI + 1], decoded)
            ELSE /\ ~isProcessing'
                 /\ pdfBlob' # None
                 /\ Len(pdfBlob'[1].pages) = Len(pdfFiles)
                 /\ Len(pdfFiles) >= 1
                 /\ SubSeq(pdfBlob'[1].pages, 1, pdfI) = SubSeq(pdfDoc, 1, pdfI)
                 /\ PageHolds(pdfBlob'[1].pages[pdfI + 1],
                              pdfFiles[pdfI + 1], decoded)]_vars

\* C8 witness: a delivered document whose first and third pages are error
\* markers and whose second page is an image
DecodeFailureKeepsGoingWitness ==
  /\ pdfBlob # None
  /\ Len(pdfBlob[1].pages) = 3
  /\ pdfBlob[1].pages[1].kind = "text"
  /\ pdfBlob[1].pages[2].kind = "image"
  /\ pdfBlob[1].pages[3].kind = "text"

\* C9: when a document run fails as a whole, every item is marked Error with
\* the generic diagnostic, no document artifact is available, and the busy
\* flag is cleared.
FatalFaultMarksAll ==
  [][(StartPdfConversion(TRUE) \/ \E decoded \in BOOLEAN : PdfPageSettle(decoded, TRUE))
       => /\ Len(files') = Len(files)
          /\ \A k \in 1..Len(files) :
               /\ files'[k].id = files[k].id
               /\ files'[k].status = ERROR
               /\ files'[k].error = Some("PDF Generation failed")
          /\ pdfBlob' = None
          /\ ~isProcessing']_vars

\* C9 witness: after a failed run over three items all are Error with the
\* generic diagnostic and nothing can be downloaded
FatalFaultMarksAllWitness ==
  /\ ~isProcessing /\ mode = PDF
  /\ Len(files) = 3
  /\ \A k \in 1..Len(files) :
       files[k].status = ERROR /\ files[k].error = Some("PDF Generation failed")
  /\ pdfBlob = None

\* page pg was laid out under the options o
PageUses(pg, o) ==
  /\ pg.pageWidth = (IF o.orientation = "portrait" THEN 210 ELSE 297)
  /\ pg.pageHeight = (IF o.orientation = "portrait" THEN 297 ELSE 210)
  /\ pg.kind = "image" =>
       pg.inset = (CASE o.margin = "none" -> 0
                     [] o.margin = "small" -> 10
                     [] o.margin = "big" -> 25)

\* C10: changing the margin or the orientation discards the assembled
\* document in the same step, and a run assembles every page with the
\* options that were current when it was invoked.
OptionsAtInvocation ==
  [][/\ pdfOptions' # pdfOptions => pdfBlob' = None
     /\ (mode = PDF /\ ~isProcessing /\ isProcessing') => pdfRunOptions' = pdfOptions
     /\ (mode = PDF /\ isProcessing /\ isProcessing') => pdfRunOptions' = pdfRunOptions
     /\ (mode = PDF /\ isProcessing) =>
          \A j \in 1..Len(pdfDoc) : PageUses(pdfDoc[j], pdfRunOptions)
     /\ (mode = PDF /\ isProcessing /\ pdfBlob' # None) =>
          /\ pdfBlob'[1].orientation = pdfRunOptions.orientation
          /\ \A j \in 1..Len(pdfBlob'[1].pages) :
               PageUses(pdfBlob'[1].pages[j], pdfRunOptions)]_vars

\* C10 witness: a document assembled landscape with big margins although
\* both options were changed while the run was in flight
OptionsAtInvocationWitness ==
  /\ pdfBlob # None
  /\ Len(pdfBlob[1].pages) >= 2
  /\ \A j \in 1..Len(pdfBlob[1].pages) :
       /\ pdfBlob[1].pages[j].kind = "image"
       /\ pdfBlob[1].pages[j].pageWidth = 297
       /\ pdfBlob[1].pages[j].inset = 25
  /\ pdfOptions = [margin |-> "none", orientation |-> "portrait"]

(***************************************************************************)
(* The registry: remove, display references, add.                          *)
(***************************************************************************)
\* what an item contributes to a counter of the statistics
Contribution(f, status) == IF f.status = status THEN 1 ELSE 0

\* C11: remove(id) removes exactly the item with that id and releases exactly
\* that item's display reference; every other item keeps all its fields and
\* its position order, and the statistics change only by the removed item's
\* contribution.  Removing an id that is not in the list changes neither the
\* list nor the display references.
RemoveFrame ==
  [][/\ \A id \in IdSet(files) :
          HandleRemoveFile(id) =>
            LET p == PositionOf(files, id)
            IN  /\ files' = SubSeq(files, 1, p - 1)
                               \o SubSeq(files, p + 1, Len(files))
                /\ files[p].previewUrl \in liveUrls
                /\ liveUrls' = liveUrls \ {files[p].previewUrl}
                /\ stats'.total = stats.total - 1
                /\ stats'.completed
                     = stats.completed - Contribution(files[p], COMPLETED)
                /\ stats'.failed = stats.failed - Contribution(files[p], ERROR)
     /\ \A id \in (1..nextId) \ IdSet(files) :
          /\ RemoveById(files, id) = files
          /\ liveUrls \ RevokedOnRemove(files, id) = liveUrls]_vars

\* C11 witness: the second of at least four items was removed while the
\* third is Completed and another item has failed
RemoveFrameWitness ==
  /\ Len(files) >= 3
  /\ files[1].id = 1 /\ files[2].id = 3
  /\ files[2].status = COMPLETED
  /\ \E k \in 1..Len(files) : files[k].status = ERROR
  /\ 2 \notin liveUrls
  /\ 3 \in liveUrls

\* the display references held by the items of a list
UrlsOf(fs) == {fs[k].previewUrl : k \in 1..Len(fs)}

\* C12: display references are paired: before and after every step the live
\* references are exactly those held by the listed items, one per item, so a
\* reference is released when its item leaves the list and a step releases
\* only references that were live.
RefsPaired ==
  [][/\ liveUrls = UrlsOf(files)
     /\ liveUrls' = UrlsOf(files')
     /\ Cardinality(UrlsOf(files)) = Len(files)
     /\ (liveUrls \ liveUrls') = UrlsOf(files) \ UrlsOf(files')
     /\ (liveUrls' \ liveUrls) \subseteq nextId..(nextId' - 1)
     /\ \A id \in IdSet(files) :
          HandleRemoveFile(id) => RevokedOnRemove(files, id) \subseteq liveUrls
     /\ HandleClearAll => UrlsOf(files) \subseteq liveUrls]_vars

\* C12 witness: two items were added and both have left the list again, one
\* of them by remove and the other by clear or remove
RefsPairedWitness ==
  /\ files = <<>>
  /\ nextId = 3
  /\ liveUrls = {}

\* C13: add(sources) appends one new item per source, in the order given,
\* after the existing items, which are left unchanged; each new item is Idle
\* without output and error and its id differs from every id that is or ever
\* was in the list.
AddAppends ==
  [][/\ \A k \in 1..Len(files) : files[k].id < nextId
     /\ nextId' >= nextId
     /\ \A n \in 1..MaxDrop :
          HandleFilesAdded(n) =>
            /\ Len(files') = Len(files) + n
            /\ SubSeq(files', 1, Len(files)) = files
            /\ \A k \in 1..n :
                 LET f == files'[Len(files) + k]
                 IN  /\ f.file = UserFile(nextId + k - 1)
                     /\ f.status = IDLE
                     /\ f.convertedBlob = None
                     /\ f.error = None
                     /\ f.id >= nextId
                     /\ f.id < nextId'
                     /\ \A j \in 1..(Len(files) + n) :
                          j # Len(files) + k => files'[j].id # f.id]_vars

\* C13 witness: a second item was added after the first had been converted
AddAppendsWitness ==
  /\ Len(files) = 2
  /\ files[1].status = COMPLETED /\ files[1].convertedBlob # None
  /\ files[2].id = 2 /\ files[2].status = IDLE

(***************************************************************************)
(* Page layout.                                                            *)
(***************************************************************************)
\* a size fits an image of w x h pixels into a box of cw x ch: same aspect
\* ratio, inside the box, and as large as the box allows
FitsBox(w, h, cw, ch, fit) ==
  /\ fit.finalWidth.den > 0 /\ fit.finalHeight.den > 0
  /\ fit.finalWidth.num > 0 /\ fit.finalHeight.num > 0
  /\ fit.finalWidth.num * fit.finalHeight.den * h
       = fit.finalHeight.num * fit.finalWidth.den * w
  /\ fit.finalWidth.num <= cw * fit.finalWidth.den
  /\ fit.finalHeight.num <= ch * fit.finalHeight.den
  /\ \/ fit.finalWidth.num = cw * fit.finalWidth.den
     \/ fit.finalHeight.num = ch * fit.finalHeight.den

\* the fit is right for every image and every box of up to MaxSide a side
FitEveryBox ==
  \A w \in 1..MaxSide, h \in 1..MaxSide, cw \in 1..MaxSide, ch \in 1..MaxSide :
    FitsBox(w, h, cw, ch, FitInside(w, h, cw, ch))

\* the image pages of a document
ImagePages(doc) == {j \in 1..Len(doc) : doc[j].kind = "image"}

\* the image on page pg fits the content box of the page
PageFits(pg) ==
  FitsBox(pg.of.width, pg.of.height,
          pg.pageWidth - (2 * pg.inset), pg.pageHeight - (2 * pg.inset),
          [finalWidth |-> pg.width, finalHeight |-> pg.height])

\* C14: fit-inside-box: the fitted size of an image with positive width and
\* height in a content box with positive dimensions has the image's aspect
\* ratio, does not exceed the box in width or height and equals it in one
\* of the two; a 4:3 image in a 100 by 100 box is fitted as 100 by 75.
FitInsideBox ==
  /\ FitEveryBox
  /\ FitInside(4, 3, 100, 100)
       = [finalWidth |-> RatOf(100), finalHeight |-> RatOf(75)]
  /\ \A j \in ImagePages(pdfDoc) : PageFits(pdfDoc[j])
  /\ pdfBlob # None =>
       \A j \in ImagePages(pdfBlob[1].pages) : PageFits(pdfBlob[1].pages[j])

\* C14 witness: a document whose page holds an image of 1 x 3 pixels, placed
\* landscape with big margins at the full content height of 160 and a width
\* of a third of it
FitInsideBoxWitness ==
  /\ pdfBlob # None
  /\ pdfBlob[1].pages[1].kind = "image"
  /\ pdfBlob[1].pages[1].of.width = 1 /\ pdfBlob[1].pages[1].of.height = 3
  /\ pdfBlob[1].pages[1].pageWidth = 297 /\ pdfBlob[1].pages[1].inset = 25
  /\ pdfBlob[1].pages[1].height = RatOf(160)
  /\ pdfBlob[1].pages[1].width = Rat(160, 3)

\* the margin and the page of the policy, in mm
PolicyMargin(o) ==
  CASE o.margin = "none" -> 0 [] o.margin = "small" -> 10 [] o.margin = "big" -> 25
PolicyPage(o) ==
  IF o.orientation = "portrait" THEN [width |-> 210, height |-> 297]
  ELSE [width |-> 297, height |-> 210]

\* the image on page pg lies inside the content box that the policy gives
\* for the options o and touches two opposite sides of it
InsideContentBox(pg, o) ==
  LET m == PolicyMargin(o)
      right == RatAdd(pg.x, pg.width)
      bottom == RatAdd(pg.y, pg.height)
  IN  /\ pg.pageWidth = PolicyPage(o).width
      /\ pg.pageHeight = PolicyPage(o).height
      /\ pg.x.num >= m * pg.x.den
      /\ pg.y.num >= m * pg.y.den
      /\ right.num <= (PolicyPage(o).width - m) * right.den
      /\ bottom.num <= (PolicyPage(o).height - m) * bottom.den
      /\ \/ pg.x = RatOf(m) /\ right = RatOf(PolicyPage(o).width - m)
         \/ pg.y = RatOf(m) /\ bottom = RatOf(PolicyPage(o).height - m)

\* C15: margin and orientation policy: the content box is the page minus
\* twice the margin constant (0, 10, 25) on each dimension, so margin none
\* gives the full page; portrait is 210 by 297 and landscape 297 by 210; a
\* run lays its images out inside that box.
MarginPolicy ==
  /\ \A o \in [margin : PdfMargin, orientation : PdfOrientation] :
       /\ PageGeometry(o).marginSize = PolicyMargin(o)
       /\ PageGeometry(o).pageWidth = PolicyPage(o).width
       /\ PageGeometry(o).pageHeight = PolicyPage(o).height
       /\ PageGeometry(o).contentWidth
            = PolicyPage(o).width - (2 * PolicyMargin(o))
       /\ PageGeometry(o).contentHeight
            = PolicyPage(o).height - (2 * PolicyMargin(o))
  /\ PageGeometry([margin |-> "none", orientation |-> "portrait"]).contentWidth = 210
  /\ PageGeometry([margin |-> "none", orientation |-> "portrait"]).contentHeight = 297
  /\ PageGeometry([margin |-> "small", orientation |-> "landscape"]).contentWidth = 277
  /\ PageGeometry([margin |-> "big", orientation |-> "landscape"]).contentHeight = 160
  /\ (mode = PDF /\ isProcessing) =>
       \A j \in ImagePages(pdfDoc) : InsideContentBox(pdfDoc[j], pdfRunOptions)

\* C15 witness: a landscape run with big margins has placed the 4:3 image of
\* the first item at the full content height of 160
MarginPolicyWitness ==
  /\ mode = PDF /\ isProcessing
  /\ pdfRunOptions = [margin |-> "big", orientation |-> "landscape"]
  /\ pdfI >= 1
  /\ pdfDoc[1].kind = "image"
  /\ pdfDoc[1].y = RatOf(25)
  /\ pdfDoc[1].height = RatOf(160)

(***************************************************************************)
(* Download.                                                               *)
(***************************************************************************)
\* the positions of the dots of a name
Dots(name) == {p \in 1..Len(name) : name[p] = "."}

\* the last dot of a name that has one
LastDot(name) == CHOOSE p \in Dots(name) : \A q \in Dots(name) : q <= p

\* a name has an extension when something follows its last dot
HasExtension(name) == Dots(name) # {} /\ LastDot(name) < Len(name)

\* the name with its final extension replaced by .jpg, or with .jpg appended
\* when it has no extension
JpgNamed(name) ==
  IF HasExtension(name)
  THEN SubSeq(name, 1, LastDot(name) - 1) \o <<".", "j", "p", "g">>
  ELSE name \o <<".", "j", "p", "g">>

\* C16: archive entry naming: the entry name is the source name with its
\* final extension (the last dot and what follows it) removed and ".jpg"
\* appended: photo.webp gives photo.jpg, never photo.webp.jpg; a name
\* without an extension just gets ".jpg" appended.
ArchiveNaming ==
  /\ ArchiveEntryName(PhotoWebp)
       = <<"p", "h", "o", "t", "o", ".", "j", "p", "g">>
  /\ ArchiveEntryName(PhotoWebp) # PhotoWebp \o <<".", "j", "p", "g">>
  /\ ArchiveEntryName(ScanFinalWebp)
       = <<"s", "c", "a", "n", ".", "f", "i", "n", "a", "l", ".", "j", "p", "g">>
  /\ ArchiveEntryName(Notes) = <<"n", "o", "t", "e", "s", ".", "j", "p", "g">>
  /\ \A k \in 1..Len(files) :
       ArchiveEntryName(files[k].file.name) = JpgNamed(files[k].file.name)
  /\ (delivered # None /\ delivered[1].kind = "zip") =>
       /\ Len(delivered[1].files) >= 1
       /\ \A k \in 1..Len(delivered[1].files) :
            \E e \in 1..Len(delivered[1].entries) :
              delivered[1].entries[e].name = JpgNamed(delivered[1].files[k].name)
       /\ \A e \in 1..Len(delivered[1].entries) :
            \E k \in 1..Len(delivered[1].files) :
              delivered[1].entries[e].name = JpgNamed(delivered[1].files[k].name)

\* C16 witness: the archive of the converted file b.a.b holds the entry
\* b.a.jpg
ArchiveNamingWitness ==
  /\ delivered # None
  /\ delivered[1].kind = "zip"
  /\ delivered[1].files[1].name = <<"b", ".", "a", ".", "b">>
  /\ delivered[1].entries[1].name = <<"b", ".", "a", ".", "j", "p", "g">>

\* the positions of the items that are Completed and carry an output
Packable(fs) ==
  {k \in 1..Len(fs) : fs[k].status = COMPLETED /\ fs[k].convertedBlob # None}

\* how many packable items stand at or before position k
Rank(fs, k) == Cardinality({j \in Packable(fs) : j <= k})

\* C17: an archive download packages exactly the items that are Completed
\* with an output at the time of the download, one input entry each in list
\* order and none for any other item; with no such item nothing is packaged
\* or delivered.  (A delivered artifact is visible in the state right after
\* the download, where the list is still the one of the download.)
ArchiveExact ==
  (delivered # None /\ mode = JPEG) =>
    /\ delivered[1].kind = "zip"
    /\ Packable(files) # {}
    /\ Len(delivered[1].files) = Cardinality(Packable(files))
    /\ \A k \in Packable(files) :
         delivered[1].files[Rank(files, k)]
           = [name |-> files[k].file.name, blob |-> files[k].convertedBlob[1]]
    /\ Len(delivered[1].entries) >= 1
    /\ Len(delivered[1].entries) <= Len(delivered[1].files)
    /\ \A e \in 1..Len(delivered[1].entries) :
         \E k \in Packable(files) :
           delivered[1].entries[e].blob = files[k].convertedBlob[1]

\* C17 witness: an archive of one entry was delivered while the other item
\* of the list is not Completed although it still carries an old output
ArchiveExactWitness ==
  /\ delivered # None /\ mode = JPEG
  /\ Len(files) = 2
  /\ Len(delivered[1].files) = 1
  /\ delivered[1].files[1].name = files[2].file.name
  /\ files[1].status \in {ERROR, CONVERTING}
  /\ files[1].convertedBlob # None

(***************************************************************************)
(* Who changes an item.                                                    *)
(***************************************************************************)
\* a step of a batch conversion run or of a document generation run
RunStep ==
  \/ StartJpegConversion
  \/ JpegSettles
  \/ \E fault \in BOOLEAN : StartPdfConversion(fault)
  \/ \E decoded \in BOOLEAN, fault \in BOOLEAN : PdfPageSettle(decoded, fault)

\* every item that stays in the list keeps the given fields
ItemsKeep(fields) ==
  \A a \in 1..Len(files), b \in 1..Len(files') :
    files[a].id = files'[b].id =>
      /\ "status" \in fields => files'[b].status = files[a].status
      /\ "convertedBlob" \in fields
           => files'[b].convertedBlob = files[a].convertedBlob
      /\ "error" \in fields => files'[b].error = files[a].error

AtMostThreeInFlight ==
  (isProcessing /\ mode = JPEG) =>
    /\ Cardinality({k \in 1..Len(files) : files[k].status = CONVERTING}) <= 3
    /\ Cardinality({k \in 1..Len(jpegState) : jpegState[k] = "inflight"}) <= 3

\* C19 witness: three of five pending items are Converting and the other
\* two wait as Idle
AtMostThreeInFlightWitness ==
  /\ isProcessing /\ mode = JPEG
  /\ Len(jpegPending) = 5
  /\ Cardinality({k \in 1..Len(files) : files[k].status = CONVERTING}) = 3
  /\ Cardinality({k \in 1..Len(files) : files[k].status = IDLE}) = 2
  /\ Cardinality({k \in 1..Len(jpegState) : jpegState[k] = "queued"}) = 2

\* the status of the run's item of 0-based index j, where it is still listed
RunItemIs(fs, j, status) ==
  \A k \in 1..Len(fs) : fs[k].id = pdfFiles[j + 1].id => fs[k].status = status

\* C20: a document run over n items signals progress once for each index
\* 0..n-1 in increasing order, the signal for index i before page i is
\* filled; the signal marks item i Completed, so throughout the run the
\* run's items up to the current index are Completed and the later ones
\* Converting, and after a successful run every item of the run is Completed.
ProgressInOrder ==
  [][/\ (mode = PDF /\ ~isProcessing /\ isProcessing') =>
          /\ pdfI' = 0
          /\ files'[1].status = COMPLETED
          /\ pdfDoc'[1].kind = "blank"
     /\ (mode = PDF /\ isProcessing) =>
          /\ \A j \in 0..(Len(pdfFiles) - 1) :
               RunItemIs(files, j, IF j <= pdfI THEN COMPLETED ELSE CONVERTING)
          /\ pdfDoc[pdfI + 1].kind = "blank"
     /\ (mode = PDF /\ isProcessing /\ isProcessing') =>
          /\ pdfI' \in {pdfI, pdfI + 1}
          /\ pdfI' = pdfI + 1 =>
               /\ RunItemIs(files, pdfI + 1, CONVERTING)
               /\ RunItemIs(files', pdfI + 1, COMPLETED)
               /\ pdfDoc'[pdfI + 2].kind = "blank"
          /\ \A j \in 0..(Len(pdfFiles) - 1) :
               j # pdfI + 1 =>
                 \A a \in 1..Len(files), b \in 1..Len(files') :
                   (files[a].id = pdfFiles[j + 1].id /\ files'[b].id = files[a].id)
                     => files'[b].status = files[a].status
     /\ (mode = PDF /\ isProcessing /\ ~isProcessing' /\ pdfBlob' # None) =>
          /\ pdfI = Len(pdfFiles) - 1
          /\ \A j \in 0..(Len(pdfFiles) - 1) : RunItemIs(files', j, COMPLETED)]_vars

\* C20 witness: a run over three items has signalled indices 0 and 1 and
\* filled page 0 only; the first item has been removed from the list since
ProgressInOrderWitness ==
  /\ mode = PDF /\ isProcessing
  /\ Len(pdfFiles) = 3 /\ pdfI = 1
  /\ pdfDoc[1].kind = "image" /\ pdfDoc[2].kind = "blank"
  /\ Len(files) = 2
  /\ files[1].id = 2 /\ files[1].status = COMPLETED
  /\ files[2].id = 3 /\ files[2].status = CONVERTING

(***************************************************************************)
(* Runs and the busy flag.                                                 *)
(***************************************************************************)
\* a batch run / a document run is in progress
JpegRunning == jpegPending # <<>>
PdfRunning == pdfFiles # <<>>

\* the step ends a batch run: the last conversion of the last group settles
LastJpegSettle ==
  /\ JpegRunning
  /\ jpegI + 3 >= Len(jpegPending)
  /\ Cardinality({k \in 1..Len(jpegState) : jpegState[k] = "inflight"}) = 1
  /\ \A k \in 1..Len(jpegState) : jpegState[k] # "queued"

\* the step ends a document run: the last page is done and the document
\* stored, or the run has failed and every item is marked Error
LastPdfSettle ==
  /\ PdfRunning
  /\ \/ pdfI = Len(pdfFiles) - 1 /\ pdfBlob' # None
     \/ \A k \in 1..Len(files') : files'[k].status = ERROR

\* C21: runs are serialized by the busy flag: at most one run is in progress
\* in every state; while one is, no second run starts, and neither clear-all
\* nor a mode switch takes effect; the flag is set when a run starts on a
\* non-empty list and cleared only when that run has finished.
RunsSerialized ==
  [][/\ ~(JpegRunning /\ PdfRunning)
     /\ isProcessing <=> (JpegRunning \/ PdfRunning)
     /\ JpegRunning => mode = JPEG
     /\ PdfRunning => mode = PDF
     /\ isProcessing =>
          /\ mode' = mode
          /\ ~HandleClearAll /\ ~SetModeJpeg /\ ~SetModePdf
          /\ Len(files') >= Len(files) - 1
          /\ \A k \in 1..Len(files) :
               files[k].status = CONVERTING => files[k].id \in IdSet(files')
     /\ (isProcessing /\ isProcessing') =>
          /\ jpegPending' = jpegPending
          /\ pdfFiles' = pdfFiles
          /\ pdfRunOptions' = pdfRunOptions
     /\ (~isProcessing /\ isProcessing') =>
          /\ Len(files) > 0
          /\ JpegRunning' \/ PdfRunning'
     /\ (isProcessing /\ ~isProcessing') => (LastJpegSettle \/ LastPdfSettle)]_vars

\* C21 witness: a document run is in progress over items that an earlier,
\* finished batch run had converted
RunsSerializedWitness ==
  /\ isProcessing /\ mode = PDF
  /\ PdfRunning /\ ~JpegRunning
  /\ Len(files) = 2
  /\ \A k \in 1..Len(files) : files[k].convertedBlob # None

(***************************************************************************)
(* Centred placement.                                                      *)
(***************************************************************************)
\* a <= b for rationals
RatLe(a, b) == a.num * b.den <= b.num * a.den

\* the rectangle at (x, y) of size fw x fh is centred in the content box of
\* size cw x ch that starts at (m, m): inside it, with equal gaps on
\* opposite sides, each half of what the image leaves free
CentredIn(at, m, cw, ch) ==
  LET left == RatSub(at.x, RatOf(m))
      right == RatSub(RatOf(m + cw), RatAdd(at.x, at.finalWidth))
      top == RatSub(at.y, RatOf(m))
      bottom == RatSub(RatOf(m + ch), RatAdd(at.y, at.finalHeight))
  IN  /\ RatLe(RatOf(0), left) /\ RatLe(RatOf(0), right)
      /\ RatLe(RatOf(0), top) /\ RatLe(RatOf(0), bottom)
      /\ left = right
      /\ top = bottom
      /\ RatAdd(left, left) = RatSub(RatOf(cw), at.finalWidth)
      /\ RatAdd(top, top) = RatSub(RatOf(ch), at.finalHeight)

\* the placement is centred for every image and box of up to MaxSide a side
\* under every margin
CentredEveryBox ==
  \A w \in 1..MaxSide, h \in 1..MaxSide, cw \in 1..MaxSide, ch \in 1..MaxSide :
    \A m \in {0, 10, 25} : CentredIn(Placement(w, h, m, cw, ch), m, cw, ch)

\* the image on page pg is centred in the content box of the page
PageCentred(pg) ==
  CentredIn([x |-> pg.x, y |-> pg.y,
             finalWidth |-> pg.width, finalHeight |-> pg.height],
            pg.inset,
            pg.pageWidth - (2 * pg.inset), pg.pageHeight - (2 * pg.inset))

\* C22: centred placement: on each axis the image is placed at
\* margin + (contentDimension - fitDimension) / 2, so it lies inside the
\* content box with equal gaps on opposite sides; a 4:3 image in a 100 by
\* 100 box is offset by 0 horizontally and 12.5 vertically.
CentredPlacement ==
  /\ CentredEveryBox
  /\ Placement(4, 3, 0, 100, 100).x = RatOf(0)
  /\ Placement(4, 3, 0, 100, 100).y = Rat(25, 2)
  /\ RatSub(Placement(4, 3, 10, 100, 100).x, RatOf(10)) = RatOf(0)
  /\ RatSub(Placement(4, 3, 10, 100, 100).y, RatOf(10)) = Rat(125, 10)
  /\ \A j \in ImagePages(pdfDoc) : PageCentred(pdfDoc[j])
  /\ pdfBlob # None =>
       \A j \in ImagePages(pdfBlob[1].pages) : PageCentred(pdfBlob[1].pages[j])

\* C22 witness: a portrait document with small margins whose page holds an
\* image of 3 x 1 pixels at the full content width, 10 from the left edge
\* and 701/6 from the top
CentredPlacementWitness ==
  /\ pdfBlob # None
  /\ pdfBlob[1].pages[1].kind = "image"
  /\ pdfBlob[1].pages[1].of.width = 3 /\ pdfBlob[1].pages[1].of.height = 1
  /\ pdfBlob[1].pages[1].pageWidth = 210 /\ pdfBlob[1].pages[1].inset = 10
  /\ pdfBlob[1].pages[1].x = RatOf(10)
  /\ pdfBlob[1].pages[1].y = Rat(701, 6)

(***************************************************************************)
(* Name collisions in the archive.                                         *)
(***************************************************************************)
\* the entry names that the input of an archive derives
DerivedNames(input) == {JpgNamed(input[k].name) : k \in 1..Len(input)}

\* the last position of the input that derives the entry name n
LastDeriving(input, n) ==
  CHOOSE k \in 1..Len(input) :
    /\ JpgNamed(input[k].name) = n
    /\ \A j \in 1..Len(input) : JpgNamed(input[j].name) = n => j <= k

\* C23: archive name collisions are not deduplicated: when two packaged
\* items derive the same entry name (a.webp and a.png both give a.jpg) the
\* archive holds one entry under that name, with the output of the later
\* item in list order, so the archive has as many entries as there are
\* distinct derived names.
CollisionLastWins ==
  /\ ArchiveEntryName(AWebp) = <<"a", ".", "j", "p", "g">>
  /\ ArchiveEntryName(APng) = <<"a", ".", "j", "p", "g">>
  /\ (delivered # None /\ delivered[1].kind = "zip") =>
       LET input == delivered[1].files
           entries == delivered[1].entries
       IN  /\ Len(entries) = Cardinality(DerivedNames(input))
           /\ {entries[e].name : e \in 1..Len(entries)} = DerivedNames(input)
           /\ \A e \in 1..Len(entries) :
                entries[e].blob = input[LastDeriving(input, entries[e].name)].blob

\* C23 witness: the archive of the converted files photo.webp, a.webp and
\* a.png has two entries, and a.jpg holds the output of a.png
CollisionLastWinsWitness ==
  /\ delivered # None
  /\ delivered[1].kind = "zip"
  /\ Len(delivered[1].files) = 3
  /\ delivered[1].files[2].name = <<"a", ".", "w", "e", "b", "p">>
  /\ delivered[1].files[3].name = <<"a", ".", "p", "n", "g">>
  /\ Len(delivered[1].entries) = 2
  /\ delivered[1].entries[2].name = <<"a", ".", "j", "p", "g">>
  /\ delivered[1].entries[2].blob = delivered[1].files[3].blob
  /\ delivered[1].entries[2].blob # delivered[1].files[2].blob

(***************************************************************************)
(* The stored document and the current list and options.                   *)
(***************************************************************************)
\* page is the page that a run under options makes for file
PageOf(page, file, options) ==
  /\ page.pageWidth = NewPage(options).pageWidth
  /\ page.pageHeight = NewPage(options).pageHeight
  /\ \/ page = ImagePage(NewPage(options), file, PageGeometry(options))
     \/ page = ErrorPage(NewPage(options), file)

\* blob is a document of exactly the items fs, in order, under options
AssembledFrom(blob, fs, options) ==
  /\ blob.orientation = options.orientation
  /\ Len(blob.pages) = Len(fs)
  /\ \A j \in 1..Len(fs) : PageOf(blob.pages[j], fs[j].file, options)

\* C24: whenever a document artifact is available for download, it was
\* assembled from exactly the current item list (same items, same order) and
\* with the currently selected margin and orientation, under every
\* interleaving of option changes, additions and removals with a run.
ArtifactCurrent ==
  pdfBlob # None => AssembledFrom(pdfBlob[1], files, pdfOptions)

(***************************************************************************)
(* Idle application, settled items.                                        *)
(***************************************************************************)
\* C25: whenever no run is in progress (busy flag clear), no item has status
\* Converting: after successful runs, after runs with per-item failures,
\* after a failed document run, and when items were added or removed while
\* the run was in flight.
NoConvertingWhenIdle ==
  ~isProcessing => \A k \in 1..Len(files) : files[k].status # CONVERTING

\* C25 witness: a document run has ended and stored its document; the
\* second item, added while the run was in flight, is idle
NoConvertingWhenIdleWitness ==
  /\ ~isProcessing
  /\ mode = PDF
  /\ pdfBlob # None
  /\ Len(files) = 2
  /\ files[1].status = COMPLETED
  /\ files[2].status = IDLE

(***************************************************************************)
(* Items removed or added while a run is in flight.                        *)
(***************************************************************************)
\* the ids handed out so far that are no longer in the list
RemovedIds == {id \in 1..(nextId - 1) : id \notin IdSet(files)}

\* the ids of the items the batch run in flight captured
CapturedIds == {jpegPending[k].id : k \in 1..Len(jpegPending)}

\* the list a run would have captured had it started before any removal:
\* the item with id k at index k - 1
EverCaptured == [k \in 1..(nextId - 1) |-> [id |-> k, file |-> UserFile(k)]]

\* a status update or a progress signal addressed to a removed id, or to
\* its former index, leaves the list as it is
UpdatesToRemovedAreNoOps ==
  \A id \in RemovedIds :
    /\ \A st \in {IDLE, CONVERTING, COMPLETED, ERROR} :
         UpdateStatus(files, id, st, NoExtra) = files
    /\ \A ok \in BOOLEAN : SettleItem(files, EverCaptured[id], ok) = files
    /\ MarkConverting(files, <<EverCaptured[id]>>) = files
    /\ OnProgress(files, EverCaptured, id - 1) = files

\* the step settles the conversion of a removed item: the list keeps its
\* items, and an item changes only by being dispatched with the next group
RemovedSettleChangesNothing ==
  \A k \in 1..Len(jpegPending), ok \in BOOLEAN :
    (JpegSettle(k, ok) /\ jpegPending[k].id \in RemovedIds) =>
      /\ Len(files') = Len(files)
      /\ \A j \in 1..Len(files) :
           \/ files'[j] = files[j]
           \/ /\ \E b \in BatchIndices(jpegPending, jpegI + BATCH_SIZE) :
                    jpegPending[b].id = files[j].id
              /\ files'[j] = MergeItem(files[j], CONVERTING, NoExtra)

\* during a batch run an item the run did not capture is left as it is, and
\* an item that enters the list is idle, without output or error
UncapturedUntouched ==
  JpegRunning =>
    \A b \in 1..Len(files') :
      files'[b].id \notin CapturedIds =>
        IF files'[b].id \in IdSet(files)
        THEN \E a \in 1..Len(files) : files[a] = files'[b]
        ELSE /\ files'[b].status = IDLE
             /\ files'[b].convertedBlob = None
             /\ files'[b].error = None

\* C26: an item removed while a run is in flight never reappears in the
\* list: a later status update or progress signal addressed to its id (or to
\* its former index) changes nothing for it and does not change the status,
\* output or error of any other item; an item added while a batch run is in
\* flight is not processed by that run and stays Idle until a later run.
RemovedStaysGone ==
  /\ []UpdatesToRemovedAreNoOps
  /\ [][/\ \A id \in RemovedIds : id \notin IdSet(files')
        /\ RemovedSettleChangesNothing
        /\ UncapturedUntouched]_vars

\* C26 witness: an item was removed while it was queued behind the first
\* group; its group has been dispatched since and its conversion is in flight
RemovedStaysGoneWitness ==
  /\ isProcessing
  /\ \E k \in 1..Len(jpegPending) :
       /\ jpegPending[k].id \in RemovedIds
       /\ jpegState[k] = "inflight"
  /\ \E j \in 1..Len(files) : files[j].status = CONVERTING

(***************************************************************************)
(* Completed items in archive mode.                                        *)
(***************************************************************************)
\* C27: whenever the application is in archive (JPEG) mode, every item with
\* status Completed has an encoded output present, so the number of items
\* the archive download packages equals the completed count shown in the
\* statistics, after any sequence of mode switches, document runs and batch
\* runs.
ArchiveModeCompletedHaveOutput ==
  mode = JPEG =>
    /\ \A k \in 1..Len(files) :
         files[k].status = COMPLETED => files[k].convertedBlob # None
    /\ Len(ZipInput(CompletedFiles(files))) = stats.completed

====
